---- MODULE Spec2Model ----
(***************************************************************************)
(* A model of align.py of align-videos-by-sound: the frequency signature   *)
(* (_mk_freq_trans_summary), the delay finder (_find_delay), the multi     *)
(* file delay resolution (SyncDetector._align) and the removal of the      *)
(* working directory (SyncDetector.__exit__).                              *)
(*                                                                         *)
(* Numbers.  The source computes seconds as floats,                        *)
(*   seconds = -delay / samps_per_sec, samps_per_sec = sample_rate / fft.  *)
(* The model keeps them exact: a duration is an integer count of ticks of  *)
(* 1/sample_rate second, so that delay windows are delay * fft ticks, and  *)
(* a bound of m ticks is the rational m / fft in window units.  Floating   *)
(* point rounding is outside the model.                                    *)
(***************************************************************************)
EXTENDS Integers, Sequences, FiniteSets, TLC

VARIABLES
    \* where the run is: "start" before a call and "done" after it; in
    \* __exit__: "exit" on entry, "loop" at the while, "sleep", "exited"
    pc,
    \* _mk_freq_trans_summary: its arguments and the signature it returns
    data, fft_bin_size, overlap, box_height, box_width, maxes_per_box, freqs_dict,
    \* SyncDetector._align: the file list, the signature of each file, the
    \* known delay map, and what it computed: _result1, _result2 and the outcome
    files, ftds, known_delay_map, result1, result2, aligned,
    \* SyncDetector.__exit__: how the body of the with statement ended, the
    \* working directory (whether it exists, its wave files, the ones an
    \* external tool still holds open), the retry counter, the rmtree calls
    \* made, how __exit__ ended and what leaves the with statement
    body, dir_exists, wavs, locked, retry, attempts, exit_outcome, propagated,
    \* _find_delay: its arguments, the order its key set is visited in, its outcome
    freqs_dict_orig, freqs_dict_sample, min_delay, max_delay, key_order, fd_outcome

fd_vars == <<freqs_dict_orig, freqs_dict_sample, min_delay, max_delay, key_order, fd_outcome>>
sig_vars == <<data, fft_bin_size, overlap, box_height, box_width, maxes_per_box, freqs_dict>>
al_vars == <<files, ftds, known_delay_map, result1, result2, aligned>>
ex_vars == <<body, dir_exists, wavs, locked, retry, attempts, exit_outcome, propagated>>
vars == <<pc, sig_vars, fd_vars, al_vars, ex_vars>>

-----------------------------------------------------------------------------
(* Bounds of the model *)
MaxTime == 2
MaxData == 6
MaxFiles == 3
MaxWavs == 2

Times == 0..MaxTime

-----------------------------------------------------------------------------
(* Helpers *)
Range(s) == {s[n] : n \in DOMAIN s}
Abs(n) == IF n < 0 THEN -n ELSE n
Max(S) == CHOOSE m \in S : \A n \in S : n <= m
Min(S) == CHOOSE m \in S : \A n \in S : m <= n

RECURSIVE AscSeq(_)
\* the members of a finite set of integers in ascending order
AscSeq(S) == IF S = {} THEN <<>> ELSE <<Min(S)>> \o AscSeq(S \ {Min(S)})

Perms(S) == {p \in [1..Cardinality(S) -> S] : Range(p) = S}

-----------------------------------------------------------------------------
(* The fft_bin_size values of the model, and the one the signatures given   *)
(* to the delay finder were made with: the frequency keys of a signature    *)
(* are range(fft_bin_size // 2), line 55.                                   *)
FftSizes == {2, 3, 4}
SigFftBinSize == Max(FftSizes)
Keys == 0..((SigFftBinSize \div 2) - 1)

-----------------------------------------------------------------------------
(* Floats that may be nan: min_delay and max_delay of _find_delay.         *)
NaN == [nan |-> TRUE, num |-> 0, den |-> 1]
Rat(n, d) == [nan |-> FALSE, num |-> n, den |-> d]
IsNaN(q) == q.nan
\* delta_t >= q and delta_t <= q for a rational q that is not nan (den > 0)
GeRat(delta_t, q) == delta_t * q.den >= q.num
LeRat(delta_t, q) == delta_t * q.den <= q.num

-----------------------------------------------------------------------------
(* Frequency signatures: frequency key -> list of time indices.  A key is  *)
(* present only once a time was appended to it (line 65), a (time, key)    *)
(* pair is appended at most once, and the lists are in ascending time      *)
(* order (windows are visited in ascending x, boxes in insertion order).   *)
Sigs == UNION {[K -> {AscSeq(T) : T \in (SUBSET Times) \ {{}}}] : K \in SUBSET Keys}

\* the signature with every time index increased by d
Shift(sig, d) == [k \in DOMAIN sig |-> [n \in DOMAIN sig[k] |-> sig[k][n] + d]]

-----------------------------------------------------------------------------
(* _mk_freq_trans_summary, lines 39-68 *)

\* line 50: the start j of window x, and how many windows the range yields
WindowStart(x, fbs, ovl) == -ovl + x * (fbs - ovl)
NumWindows(n, fbs, ovl) ==
    Cardinality({x \in 0..(n + ovl) : WindowStart(x, fbs, ovl) < n})

SampleData_Shrunk(d, j, fbs) ==
    SubSeq(d, (IF j > 0 THEN j ELSE 0) + 1, Min({Len(d), j + fbs}))

\* line 51: data[max(0, j):max(0, j) + fft_bin_size]; a slice stops at the end of data
SampleData(d, j, fbs) ==
    LET from == IF j > 0 THEN j ELSE 0
    IN  SubSeq(d, from + 1, Min({Len(d), from + fbs}))

RECURSIVE SumSeq(_)
SumSeq(s) == IF s = <<>> THEN 0 ELSE Head(s) + SumSeq(Tail(s))

\* line 53: |fft(sample_data)[y]|, kept as its square (same order, same ties):
\* bin 0 is the sum of the samples; bin 1 of four samples a b c d is
\* (a - c) + i(d - b).  Exact for fft_bin_size <= 4, where y is 0 or 1.
Intensity(sample_data, y) ==
    IF y = 0 THEN SumSeq(sample_data) * SumSeq(sample_data)
    ELSE (sample_data[1] - sample_data[3]) * (sample_data[1] - sample_data[3])
         + (sample_data[2] - sample_data[4]) * (sample_data[2] - sample_data[4])

\* the order of python tuples (intensity, x, y)
TripleLess(a, b) ==
    \/ a[1] < b[1]
    \/ a[1] = b[1] /\ a[2] < b[2]
    \/ a[1] = b[1] /\ a[2] = b[2] /\ a[3] < b[3]
MinTriple(S) == CHOOSE m \in S : \A t \in S \ {m} : TripleLess(m, t)

\* list.remove: without the first element equal to t
RemoveFirst(s, t) ==
    LET at == Min({n \in DOMAIN s : s[n] = t})
    IN  SubSeq(s, 1, at - 1) \o SubSeq(s, at + 1, Len(s))

\* boxes: the box keys in the order they were created, and each box's list
NoBoxes == [keys |-> <<>>, cells |-> <<>>]

\* lines 59-61
BoxAppend(boxes, key, triple, maxes) ==
    LET cell == IF key \in Range(boxes.keys) THEN boxes.cells[key] ELSE <<>>
        appended == Append(cell, triple)
        kept == IF Len(appended) > maxes
                THEN RemoveFirst(appended, MinTriple(Range(appended)))
                ELSE appended
    IN  [keys |-> IF key \in Range(boxes.keys) THEN boxes.keys ELSE Append(boxes.keys, key),
         cells |-> [k \in Range(boxes.keys) \cup {key} |->
                       IF k = key THEN kept ELSE boxes.cells[k]]]

RECURSIVE WindowBins(_, _, _, _, _, _, _, _)
\* lines 55-61 of window x, from frequency y on
WindowBins(boxes, sample_data, x, y, fbs, bh, bw, maxes) ==
    IF y >= fbs \div 2 THEN boxes
    ELSE WindowBins(
            BoxAppend(boxes, <<x \div bw, y \div bh>>,
                      <<Intensity(sample_data, y), x, y>>, maxes),
            sample_data, x, y + 1, fbs, bh, bw, maxes)

RECURSIVE Windows(_, _, _, _, _, _, _, _)
\* lines 50-61, from window x on
Windows(boxes, d, x, fbs, ovl, bh, bw, maxes) ==
    IF x >= NumWindows(Len(d), fbs, ovl) THEN boxes
    ELSE LET sample_data == SampleData(d, WindowStart(x, fbs, ovl), fbs)
         IN  Windows(
                IF Len(sample_data) = fbs
                THEN WindowBins(boxes, sample_data, x, 0, fbs, bh, bw, maxes)
                ELSE boxes,
                d, x + 1, fbs, ovl, bh, bw, maxes)

RECURSIVE AppendTimes(_, _)
\* lines 64-65 for one box
AppendTimes(freqs, cell) ==
    IF cell = <<>> THEN freqs
    ELSE LET x == Head(cell)[2]
             y == Head(cell)[3]
         IN  AppendTimes(
                [k \in DOMAIN freqs \cup {y} |->
                    IF k = y THEN Append(IF y \in DOMAIN freqs THEN freqs[y] ELSE <<>>, x)
                    ELSE freqs[k]],
                Tail(cell))

RECURSIVE Flatten(_, _, _)
\* lines 63-65
Flatten(freqs, boxes, bkeys) ==
    IF bkeys = <<>> THEN freqs
    ELSE Flatten(AppendTimes(freqs, boxes.cells[Head(bkeys)]), boxes, Tail(bkeys))

EmptySig == [k \in {} |-> <<>>]

MkFreqTransSummary(d, fbs, ovl, bh, bw, maxes) ==
    LET boxes == Windows(NoBoxes, d, 0, fbs, ovl, bh, bw, maxes)
    IN  Flatten(EmptySig, boxes, boxes.keys)

-----------------------------------------------------------------------------
(* _find_delay, lines 71-97 *)
Raise(what) == [kind |-> what, value |-> 0]
Return(v) == [kind |-> "return", value |-> v]

CommonKeys(orig, sample) == DOMAIN sample \cap DOMAIN orig

\* the keys in the order the for loop of line 84 visits them
KeySeq(order, keys) == SelectSeq(order, LAMBDA k : k \in keys)

DeltaT_Swapped(x_i, x_j) == x_j - x_i
DeltaT(x_i, x_j) == x_i - x_j

\* lines 85-87 for one key: x_i over the sample's list, x_j over the original's
KeyDeltas(orig, sample, key) ==
    LET no == Len(orig[key]) IN
    [n \in 1..(Len(sample[key]) * no) |->
        DeltaT(sample[key][((n - 1) \div no) + 1], orig[key][((n - 1) % no) + 1])]

RECURSIVE AllDeltas(_, _, _)
\* every delta_t of lines 84-87 in the order it is computed
AllDeltas(orig, sample, kseq) ==
    IF kseq = <<>> THEN <<>>
    ELSE KeyDeltas(orig, sample, Head(kseq)) \o AllDeltas(orig, sample, Tail(kseq))

\* lines 88-90
Inc(delta_t, mind, maxd) ==
    LET mincond_ok == IsNaN(mind) \/ GeRat(delta_t, mind)
        maxcond_ok == IsNaN(maxd) \/ LeRat(delta_t, maxd)
    IN  IF mincond_ok /\ maxcond_ok THEN 1 ELSE 0

\* line 91: the histogram after the loops; a delta_t is a key of it even when
\* every increment for it was 0
TDiffs(deltas, mind, maxd) ==
    [d \in Range(deltas) |->
        Cardinality({n \in DOMAIN deltas : deltas[n] = d}) * Inc(d, mind, maxd)]

\* the place of d among the items of the histogram (a dict keeps insertion order)
FirstPos(deltas, d) == Min({n \in DOMAIN deltas : deltas[n] = d})

\* lines 93-95: the last item of the stable ascending sort by votes
LastSorted(deltas, t_diffs) ==
    CHOOSE d \in DOMAIN t_diffs :
        \A e \in DOMAIN t_diffs \ {d} :
            \/ t_diffs[e] < t_diffs[d]
            \/ t_diffs[e] = t_diffs[d] /\ FirstPos(deltas, e) < FirstPos(deltas, d)

FindDelay_ZeroWhenNoKeys(orig, sample, mind, maxd, order) ==
    LET keys == CommonKeys(orig, sample)
        deltas == AllDeltas(orig, sample, KeySeq(order, keys))
    IN  IF keys = {} THEN Return(0)
        ELSE Return(LastSorted(deltas, TDiffs(deltas, mind, maxd)))

FindDelay(orig, sample, mind, maxd, order) ==
    LET keys == CommonKeys(orig, sample)
        deltas == AllDeltas(orig, sample, KeySeq(order, keys))
        t_diffs == TDiffs(deltas, mind, maxd)
    IN  IF keys = {} THEN Raise("NoCorrelation")                 \* lines 78-81
        ELSE IF DOMAIN t_diffs = {} THEN Raise("IndexError")     \* line 95 on an empty list
        ELSE Return(LastSorted(deltas, t_diffs))

\* lines 194, 208, 218: -delay / samps_per_sec, in ticks of 1/sample_rate second
DelaySeconds(delay, fbs) == -(delay * fbs)


-----------------------------------------------------------------------------
(* SyncDetector._align, lines 194-238.  A delay in seconds is kept in ticks *)
(* of 1/sample_rate second.                                                 *)

\* lines 206-207: kdm.get("min", nan) * samps_per_sec, seconds to windows
ToWindows(seconds, fbs) ==
    IF IsNaN(seconds) THEN NaN ELSE Rat(seconds.num, seconds.den * fbs)

\* list.index, lines 200-201: the first place of name, from 0; -1 for ValueError
Index_AbsentIsFirst(fs, name) ==
    IF \E n \in DOMAIN fs : fs[n] = name
    THEN Min({n \in DOMAIN fs : fs[n] = name}) - 1
    ELSE 0

Index(fs, name) ==
    IF \E n \in DOMAIN fs : fs[n] = name
    THEN Min({n \in DOMAIN fs : fs[n] = name}) - 1
    ELSE -1

\* lines 199-203: the constraints both of whose files are in the list
Resolvable(fs, kdm) ==
    {t \in DOMAIN kdm : Index(fs, t) >= 0 /\ Index(fs, kdm[t].base) >= 0}

\* lines 204-207 for the constraint of target t
KnownDelay(fs, sigs, kdm, t, fbs, order) ==
    FindDelay(sigs[Index(fs, kdm[t].base)], sigs[Index(fs, t)],
              ToWindows(kdm[t].min, fbs), ToWindows(kdm[t].max, fbs), order)

\* line 208: _result1, keyed by (ib, it)
Result1(fs, sigs, kdm, fbs, order) ==
    LET edges == {<<Index(fs, kdm[t].base), Index(fs, t)>> : t \in Resolvable(fs, kdm)}
    IN  [e \in edges |->
            DelaySeconds(KnownDelay(fs, sigs, kdm, fs[e[2] + 1], fbs, order).value, fbs)]

\* line 217: the direct, unconstrained comparison of file i with file 0
Direct(sigs, i, order) == FindDelay(sigs[0], sigs[i], NaN, NaN, order)

\* lines 210-218: _result2 before the propagation, by file index
Result2Start(sigs, r1, n, fbs, order) ==
    [i \in 0..(n - 1) |->
        IF i = 0 THEN 0
        ELSE IF <<0, i>> \in DOMAIN r1 THEN r1[<<0, i>>]
        ELSE IF <<i, 0>> \in DOMAIN r1 THEN -r1[<<i, 0>>]
        ELSE DelaySeconds(Direct(sigs, i, order).value, fbs)]

PairLess(a, b) == a[1] < b[1] \/ (a[1] = b[1] /\ a[2] < b[2])
RECURSIVE SortedPairs(_)
\* line 226: sorted(_result1.keys())
SortedPairs(E) ==
    IF E = {} THEN <<>>
    ELSE LET m == CHOOSE a \in E : \A b \in E \ {a} : PairLess(a, b)
         IN  <<m>> \o SortedPairs(E \ {m})

ChainStep_NoGuard(r2, r1, ib, it, i) ==
    IF ib > 0 /\ it = i + 1
    THEN [r2 EXCEPT ![it] = r2[ib] - r1[<<ib, it>>]]
    ELSE IF it > 0 /\ ib = i + 1
    THEN [r2 EXCEPT ![ib] = r2[it] + r1[<<ib, it>>]]
    ELSE r2

\* lines 228-231
ChainStep(r2, r1, ib, it, i) ==
    IF ib > 0 /\ it = i + 1 /\ <<0, i + 1>> \notin DOMAIN r1 /\ <<i + 1, 0>> \notin DOMAIN r1
    THEN [r2 EXCEPT ![it] = r2[ib] - r1[<<ib, it>>]]
    ELSE IF it > 0 /\ ib = i + 1 /\ <<0, i + 1>> \notin DOMAIN r1 /\ <<i + 1, 0>> \notin DOMAIN r1
    THEN [r2 EXCEPT ![ib] = r2[it] + r1[<<ib, it>>]]
    ELSE r2

RECURSIVE ChainEdge(_, _, _, _, _, _)
\* lines 227-231 for one edge, from i on
ChainEdge(r2, r1, ib, it, i, n) ==
    IF i >= n - 1 THEN r2
    ELSE ChainEdge(ChainStep(r2, r1, ib, it, i), r1, ib, it, i + 1, n)

RECURSIVE Chain(_, _, _, _)
\* lines 226-231
Chain(r2, r1, edges, n) ==
    IF edges = <<>> THEN r2
    ELSE Chain(ChainEdge(r2, r1, Head(edges)[1], Head(edges)[2], 0, n), r1, Tail(edges), n)

PadPre_FromMax(result) ==
    [i \in DOMAIN result |-> result[i] - Max({result[k] : k \in DOMAIN result})]

\* lines 234-235: result - result.min()
PadPre(result) ==
    [i \in DOMAIN result |-> result[i] - Min({result[k] : k \in DOMAIN result})]

\* line 236: -(pad_pre - pad_pre.max())
TrimPre(pad_pre) ==
    [i \in DOMAIN pad_pre |-> -(pad_pre[i] - Max({pad_pre[k] : k \in DOMAIN pad_pre}))]

\* the _find_delay calls of one run that raise: of the constraints (line 204)
\* and of the direct comparisons (line 217)
Raised(fs, sigs, kdm, fbs, order) ==
    LET r1dom == {<<Index(fs, kdm[t].base), Index(fs, t)>> : t \in Resolvable(fs, kdm)}
    IN  {KnownDelay(fs, sigs, kdm, t, fbs, order).kind : t \in Resolvable(fs, kdm)}
        \cup {Direct(sigs, i, order).kind :
                i \in {k \in 1..(Len(fs) - 1) : <<0, k>> \notin r1dom /\ <<k, 0>> \notin r1dom}}

NoResult == [kind |-> "not called", result1 |-> <<>>, result2 |-> <<>>,
             pad_pre |-> <<>>, trim_pre |-> <<>>]

\* _align from line 194 on, given the signatures of line 195
Align(fs, sigs, kdm, fbs, order) ==
    LET raised == Raised(fs, sigs, kdm, fbs, order) \ {"return"}
        r1 == Result1(fs, sigs, kdm, fbs, order)
        r2 == Chain(Result2Start(sigs, r1, Len(fs), fbs, order), r1,
                    SortedPairs(DOMAIN r1), Len(fs))
    IN  IF raised # {}
        THEN [NoResult EXCEPT !.kind = CHOOSE k \in raised : TRUE]
        ELSE [kind |-> "return", result1 |-> r1, result2 |-> r2,
              pad_pre |-> PadPre(r2), trim_pre |-> TrimPre(PadPre(r2))]

-----------------------------------------------------------------------------
(* SyncDetector.__exit__, lines 110-119, and the with statement around it   *)

\* line 111
Retries == 3

\* shutil.rmtree, line 114: it succeeds when the directory is there and no
\* file in it is held open
RmtreeSucceeds(exists, present, held) == exists /\ present \cap held = {}

PcAfterRemoval_NoBreak == "loop"
\* line 115: break, and __exit__ returns
PcAfterRemoval == "exited"

\* line 118
RetryAfterFailure(r) == r - 1

\* __exit__ has no return statement and its bare except lets nothing out:
\* it returns None
ExitReturns == "returned None"

\* the with statement: a false value from __exit__ lets the exception of the
\* body propagate; without one nothing is raised
LeavesWith(how_body_ended, exit_value) ==
    IF how_body_ended = "raised" /\ exit_value = "returned None"
    THEN "exception of the body" ELSE "nothing"

-----------------------------------------------------------------------------
(* The values of the variables before a call, and of the parts a            *)
(* specification does not use                                               *)
NotComputed == EmptySig
NotCalled == [kind |-> "not called", value |-> 0]

IdleSig ==
    /\ data = <<>> /\ fft_bin_size = 0 /\ overlap = 0
    /\ box_height = 0 /\ box_width = 0 /\ maxes_per_box = 0
    /\ freqs_dict = NotComputed

IdleFind ==
    /\ freqs_dict_orig = EmptySig /\ freqs_dict_sample = EmptySig
    /\ min_delay = NaN /\ max_delay = NaN
    /\ key_order = <<>> /\ fd_outcome = NotCalled

IdleAlign ==
    /\ files = <<>> /\ ftds = <<>> /\ known_delay_map = <<>>
    /\ result1 = <<>> /\ result2 = <<>> /\ aligned = NoResult

IdleExit ==
    /\ body = "running" /\ dir_exists = TRUE /\ wavs = {} /\ locked = {}
    /\ retry = 0 /\ attempts = 0 /\ exit_outcome = "not called" /\ propagated = "nothing"

-----------------------------------------------------------------------------
(* The signature extractor on its own: any buffer, any parameters *)
Amplitudes == {-1, 0, 1}
BoxHeights == {1, 2}
BoxWidths == {1, 2}
MaxesPerBox == {1, 2}
Buffers == UNION {[1..n -> Amplitudes] : n \in 0..MaxData}

InitSig ==
    /\ data \in Buffers
    /\ fft_bin_size \in FftSizes
    /\ overlap \in 0..(fft_bin_size - 1)
    /\ box_height \in BoxHeights
    /\ box_width \in BoxWidths
    /\ maxes_per_box \in MaxesPerBox
    /\ freqs_dict = NotComputed
    /\ pc = "start"
    /\ IdleFind
    /\ IdleAlign
    /\ IdleExit

CallMkFreqTransSummary ==
    /\ pc = "start"
    /\ pc' = "done"
    /\ freqs_dict' = MkFreqTransSummary(data, fft_bin_size, overlap,
                                        box_height, box_width, maxes_per_box)
    /\ UNCHANGED <<data, fft_bin_size, overlap, box_height, box_width, maxes_per_box>>
    /\ UNCHANGED fd_vars
    /\ UNCHANGED al_vars
    /\ UNCHANGED ex_vars

NextSig == CallMkFreqTransSummary
SpecSig == InitSig /\ [][NextSig]_vars

-----------------------------------------------------------------------------
(* The delay finder on its own: any two signatures, any bounds *)
BoundChoicesMin == {NaN, Rat(1, 2)}
BoundChoicesMax == {NaN, Rat(3, 2)}

InitFind ==
    /\ IdleSig
    /\ IdleAlign
    /\ IdleExit
    /\ freqs_dict_orig \in Sigs
    /\ freqs_dict_sample \in Sigs
    /\ min_delay \in BoundChoicesMin
    /\ max_delay \in BoundChoicesMax
    /\ key_order = <<>>
    /\ fd_outcome = NotCalled
    /\ pc = "start"

CallFindDelay ==
    /\ pc = "start"
    /\ pc' = "done"
    /\ \E order \in Perms(Keys) :
        /\ key_order' = order
        /\ fd_outcome' = FindDelay(freqs_dict_orig, freqs_dict_sample, min_delay, max_delay, order)
    /\ UNCHANGED <<freqs_dict_orig, freqs_dict_sample, min_delay, max_delay>>
    /\ UNCHANGED sig_vars
    /\ UNCHANGED al_vars
    /\ UNCHANGED ex_vars

NextFind == CallFindDelay
SpecFind == InitFind /\ [][NextFind]_vars

-----------------------------------------------------------------------------
(* The resolution of a file list: signatures as _each returns them, any     *)
(* known delay map over the files and one name that is not in the list.     *)
FileNames == <<"a", "b", "c", "d", "e">>
AbsentName == "z"
\* one signature, the same one window later, one without a key in common
\* with them, and one that has a key in common with each
A0 == (0 :> <<0, 2>>)
AlignSigs == {A0, Shift(A0, 1), (1 :> <<0>>), (0 :> <<1>> @@ 1 :> <<0>>)}
ConstraintCounts == 0..2
\* min and max of a constraint, in ticks: absent, or both one window
ConstraintBounds == {<<NaN, NaN>>, <<Rat(SigFftBinSize, 1), Rat(SigFftBinSize, 1)>>}

Constraints(names) ==
    {[base |-> b, min |-> mm[1], max |-> mm[2]] : b \in names, mm \in ConstraintBounds}
KnownDelayMaps(names) ==
    UNION {[T -> Constraints(names)] :
            T \in {U \in SUBSET names : Cardinality(U) \in ConstraintCounts}}

InitAlign ==
    /\ pc = "start"
    /\ \E n \in 2..MaxFiles :
        /\ files = SubSeq(FileNames, 1, n)
        /\ ftds \in [0..(n - 1) -> AlignSigs]
        /\ known_delay_map \in KnownDelayMaps(Range(SubSeq(FileNames, 1, n)) \cup {AbsentName})
    /\ fft_bin_size = SigFftBinSize
    /\ result1 = <<>> /\ result2 = <<>> /\ aligned = NoResult
    /\ data = <<>> /\ overlap = 0 /\ box_height = 0 /\ box_width = 0
    /\ maxes_per_box = 0 /\ freqs_dict = NotComputed
    /\ IdleFind
    /\ IdleExit

CallAlign ==
    /\ pc = "start"
    /\ pc' = "done"
    /\ \E order \in Perms(Keys) :
        /\ key_order' = order
        /\ aligned' = Align(files, ftds, known_delay_map, fft_bin_size, order)
    /\ result1' = aligned'.result1
    /\ result2' = aligned'.result2
    /\ UNCHANGED <<files, ftds, known_delay_map>>
    /\ UNCHANGED sig_vars
    /\ UNCHANGED <<freqs_dict_orig, freqs_dict_sample, min_delay, max_delay, fd_outcome>>
    /\ UNCHANGED ex_vars

NextAlign == CallAlign
Spec == InitAlign /\ [][NextAlign]_vars

-----------------------------------------------------------------------------
(* The end of the with statement of main: the body has returned or raised,  *)
(* the working directory holds the wave files _extract_audio wrote, some    *)
(* still held open by the external tool, which lets go of them when it will *)
InitExit ==
    /\ pc = "exit"
    /\ body \in {"returned", "raised"}
    /\ dir_exists = TRUE
    /\ wavs \in SUBSET (1..MaxWavs)
    /\ locked \in SUBSET wavs
    /\ retry = 0 /\ attempts = 0
    /\ exit_outcome = "not called" /\ propagated = "nothing"
    /\ IdleSig /\ IdleFind /\ IdleAlign

\* line 111
EnterExit ==
    /\ pc = "exit"
    /\ pc' = "loop"
    /\ retry' = Retries
    /\ UNCHANGED <<body, dir_exists, wavs, locked, attempts, exit_outcome, propagated>>
    /\ UNCHANGED <<sig_vars, fd_vars, al_vars>>

\* lines 112-115: rmtree removes the directory
RmtreeOk ==
    /\ pc = "loop" /\ retry > 0
    /\ RmtreeSucceeds(dir_exists, wavs, locked)
    /\ attempts' = attempts + 1
    /\ dir_exists' = FALSE /\ wavs' = {}
    /\ pc' = PcAfterRemoval
    /\ exit_outcome' = IF pc' = "exited" THEN ExitReturns ELSE exit_outcome
    /\ propagated' = IF pc' = "exited" THEN LeavesWith(body, ExitReturns) ELSE propagated
    /\ UNCHANGED <<body, locked, retry>>
    /\ UNCHANGED <<sig_vars, fd_vars, al_vars>>

\* lines 112-118: rmtree raises, having removed some of the files that were
\* not held; the bare except counts the failure
RmtreeFails ==
    /\ pc = "loop" /\ retry > 0
    /\ ~RmtreeSucceeds(dir_exists, wavs, locked)
    /\ attempts' = attempts + 1
    /\ \E removed \in SUBSET (wavs \ locked) : wavs' = wavs \ removed
    /\ retry' = RetryAfterFailure(retry)
    /\ pc' = "sleep"
    /\ UNCHANGED <<body, dir_exists, locked, exit_outcome, propagated>>
    /\ UNCHANGED <<sig_vars, fd_vars, al_vars>>

\* line 119: time.sleep(1) returns
Sleep ==
    /\ pc = "sleep"
    /\ pc' = "loop"
    /\ UNCHANGED ex_vars
    /\ UNCHANGED <<sig_vars, fd_vars, al_vars>>

\* line 112: the loop ends with retry = 0, and __exit__ returns
GiveUp ==
    /\ pc = "loop" /\ retry <= 0
    /\ pc' = "exited"
    /\ exit_outcome' = ExitReturns
    /\ propagated' = LeavesWith(body, ExitReturns)
    /\ UNCHANGED <<body, dir_exists, wavs, locked, retry, attempts>>
    /\ UNCHANGED <<sig_vars, fd_vars, al_vars>>

\* the external tool closes a file it held
Release ==
    /\ pc \in {"exit", "loop", "sleep"}
    /\ \E f \in locked : locked' = locked \ {f}
    /\ UNCHANGED <<pc, body, dir_exists, wavs, retry, attempts, exit_outcome, propagated>>
    /\ UNCHANGED <<sig_vars, fd_vars, al_vars>>

\* the steps of __exit__ itself
ExitStep == EnterExit \/ RmtreeOk \/ RmtreeFails \/ Sleep \/ GiveUp

NextExit ==
    \/ EnterExit
    \/ RmtreeOk
    \/ RmtreeFails
    \/ Sleep
    \/ GiveUp
    \/ Release

\* the interpreter keeps running __exit__: none of its steps waits for another
SpecExit == InitExit /\ [][NextExit]_vars /\ WF_vars(ExitStep)

-----------------------------------------------------------------------------
(* Claims about the resolution, under Spec *)
Returned == pc = "done" /\ aligned.kind = "return"
N == Len(files)
SetMin(f) == Min({f[k] : k \in DOMAIN f})
SetMax(f) == Max({f[k] : k \in DOMAIN f})
\* the delay of file i from its direct, unconstrained comparison with file 0
DirectDelay(i) == DelaySeconds(Direct(ftds, i, key_order).value, fft_bin_size)
\* the run of the same files without known delays
Unconstrained == Align(files, ftds, <<>>, fft_bin_size, key_order)
Without(kdm, t) == [u \in DOMAIN kdm \ {t} |-> kdm[u]]

\* C1: the returned vectors have one entry per file, pad[i] >= 0 and
\* trim[i] >= 0, min(pad) = 0, min(trim) = 0 and trim[i] = max(pad) - pad[i].
C1_PadTrimNormalized ==
    Returned =>
        /\ DOMAIN aligned.pad_pre = 0..(N - 1)
        /\ DOMAIN aligned.trim_pre = 0..(N - 1)
        /\ \A i \in 0..(N - 1) :
            /\ aligned.pad_pre[i] >= 0
            /\ aligned.trim_pre[i] >= 0
            /\ aligned.trim_pre[i] = SetMax(aligned.pad_pre) - aligned.pad_pre[i]
        /\ SetMin(aligned.pad_pre) = 0
        /\ SetMin(aligned.trim_pre) = 0

C1_Witness ==
    /\ Returned
    /\ N = 3
    /\ DOMAIN result1 # {}
    /\ Cardinality({aligned.pad_pre[i] : i \in 0..(N - 1)}) = 3

\* C4: with three files and the single constraint of base file 1 and target
\* file 2, the delay of file 1 is the one computed directly against file 0
\* and the delay of file 2 is delay[1] - pairwise[1, 2].
C4_ChainFromFileOne ==
    Returned /\ N = 3 /\ DOMAIN known_delay_map = {"c"} /\ known_delay_map["c"].base = "b"
        => /\ result2[1] = DirectDelay(1)
           /\ result2[2] = result2[1] - result1[<<1, 2>>]

\* the signatures are all time shifted copies of one signature
AllShifted == \A i \in DOMAIN ftds : \E d \in 0..1 : ftds[i] = Shift(A0, d)
\* the one constraint of the map is (target t, base b) with min = max = the
\* delta the unconstrained _find_delay returns for the pair, in seconds
IsCorrectHint(t, b) ==
    LET delta == FindDelay(ftds[Index(files, b)], ftds[Index(files, t)], NaN, NaN, key_order).value
        hint == Rat(delta * fft_bin_size, 1)
    IN  /\ DOMAIN known_delay_map = {t}
        /\ known_delay_map[t] = [base |-> b, min |-> hint, max |-> hint]

\* C5: a constraint for a pair of distinct files whose min and max are the
\* delta the unconstrained _find_delay returns for the pair leaves pad and
\* trim as they are without constraints.
C5_CorrectHintChangesNothing ==
    \A t \in Range(files), b \in Range(files) :
        pc = "done" /\ t # b /\ AllShifted /\ IsCorrectHint(t, b) /\ Unconstrained.kind = "return"
            => /\ aligned.kind = "return"
               /\ aligned.pad_pre = Unconstrained.pad_pre
               /\ aligned.trim_pre = Unconstrained.trim_pre

\* a constraint one of whose files is not in the list
Unresolvable(t) ==
    t \in DOMAIN known_delay_map
    /\ (t \notin Range(files) \/ known_delay_map[t].base \notin Range(files))

\* C7: a constraint whose target or base is not in the file list is ignored:
\* no edge is computed for it, and the run ends as the run without it does,
\* with the same error or the same vectors.
C7_AbsentFileIgnored ==
    pc = "done" =>
        \A t \in DOMAIN known_delay_map :
            Unresolvable(t) =>
                /\ aligned = Align(files, ftds, Without(known_delay_map, t), fft_bin_size, key_order)
                /\ Cardinality(DOMAIN result1) <= Cardinality(DOMAIN known_delay_map \ {t})

C7_Witness ==
    /\ Returned
    /\ N = 3
    /\ Unresolvable("b")
    /\ known_delay_map["b"].base = AbsentName
    /\ known_delay_map["b"].min # NaN
    /\ DOMAIN result1 = {<<1, 2>>}
    /\ aligned.pad_pre # Unconstrained.pad_pre

\* C8: delay[0] is 0; a file with a constraint edge to file 0 has the delay
\* pairwise[(0, i)], or -pairwise[(i, 0)] when only the reverse edge exists,
\* whatever other constraints there are; a file without any constraint has
\* the delay of its direct, unconstrained comparison with file 0.
C8_DirectEdgesKept ==
    Returned =>
        /\ result2[0] = 0
        /\ \A i \in 1..(N - 1) :
            /\ <<0, i>> \in DOMAIN result1 =>
                /\ result2[i] = result1[<<0, i>>]
                /\ result1[<<0, i>>] = DelaySeconds(
                      KnownDelay(files, ftds, known_delay_map, files[i + 1],
                                 fft_bin_size, key_order).value, fft_bin_size)
            /\ <<0, i>> \notin DOMAIN result1 /\ <<i, 0>> \in DOMAIN result1 =>
                /\ result2[i] = -result1[<<i, 0>>]
                /\ result1[<<i, 0>>] = DelaySeconds(
                      KnownDelay(files, ftds, known_delay_map, files[1],
                                 fft_bin_size, key_order).value, fft_bin_size)
            /\ (\A e \in DOMAIN result1 : e[1] # i /\ e[2] # i) =>
                result2[i] = DirectDelay(i)
        /\ \A i \in 0..(N - 1) : aligned.pad_pre[i] = result2[i] - SetMin(result2)

C8_Witness ==
    /\ Returned
    /\ N = 3
    /\ DOMAIN result1 = {<<0, 1>>, <<1, 2>>}
    /\ DirectDelay(2) + result1[<<1, 2>>] # result1[<<0, 1>>]
    /\ result2[1] = result1[<<0, 1>>]
    /\ result2[1] # DirectDelay(1)

-----------------------------------------------------------------------------
(* Claims about the delay finder, under SpecFind *)
FindCalled == pc = "done"
Unbounded == IsNaN(min_delay) /\ IsNaN(max_delay)
\* the delta_t values lines 85-87 can compute for the two signatures
CandidateDeltas ==
    {DeltaT(freqs_dict_sample[k][i], freqs_dict_orig[k][j]) :
        <<k, i, j>> \in {t \in Keys \X (1..(MaxTime + 1)) \X (1..(MaxTime + 1)) :
            /\ t[1] \in CommonKeys(freqs_dict_orig, freqs_dict_sample)
            /\ t[2] \in DOMAIN freqs_dict_sample[t[1]]
            /\ t[3] \in DOMAIN freqs_dict_orig[t[1]]}}

\* C2: with no frequency key in common _find_delay raises the no-correlation
\* error and returns no value; with a key in common and no bounds it returns
\* one of the candidate deltas without raising.
C2_NoCommonKeyRaises ==
    FindCalled =>
        /\ CommonKeys(freqs_dict_orig, freqs_dict_sample) = {}
              => fd_outcome = Raise("NoCorrelation")
        /\ CommonKeys(freqs_dict_orig, freqs_dict_sample) # {} /\ Unbounded
              => fd_outcome.kind = "return" /\ fd_outcome.value \in CandidateDeltas

C2_Witness ==
    /\ FindCalled
    /\ DOMAIN freqs_dict_orig # {}
    /\ DOMAIN freqs_dict_sample # {}
    /\ CommonKeys(freqs_dict_orig, freqs_dict_sample) = {}
    /\ fd_outcome.kind = "NoCorrelation"

\* C3: a call with a min_delay and/or max_delay bound either raises the
\* no-correlation error or returns a delta within the bounds.
C3_ReturnWithinBounds ==
    FindCalled /\ ~Unbounded =>
        \/ fd_outcome.kind = "NoCorrelation"
        \/ fd_outcome.kind = "return" /\ Inc(fd_outcome.value, min_delay, max_delay) = 1

\* the sample is the original with every time index increased by d
IsShiftBy(d) ==
    /\ DOMAIN freqs_dict_sample = DOMAIN freqs_dict_orig
    /\ \A k \in DOMAIN freqs_dict_orig :
        /\ Len(freqs_dict_sample[k]) = Len(freqs_dict_orig[k])
        /\ \A n \in DOMAIN freqs_dict_orig[k] : freqs_dict_sample[k][n] = freqs_dict_orig[k][n] + d

\* C6: when the sample is the non-empty original shifted by d windows, the
\* unbounded _find_delay returns exactly d, whatever order the keys are
\* visited in, and the caller's delay in seconds has magnitude d * fft_bin_size
\* / sample_rate (d * fft_bin_size ticks).
C6_ShiftedCopyGivesShift ==
    \A d \in (-MaxTime)..MaxTime :
        FindCalled /\ Unbounded /\ DOMAIN freqs_dict_orig # {} /\ IsShiftBy(d)
            => /\ fd_outcome = Return(d)
               /\ \A fft \in FftSizes : Abs(DelaySeconds(fd_outcome.value, fft)) = Abs(d) * fft

C6_Witness ==
    /\ FindCalled /\ Unbounded
    /\ IsShiftBy(1)
    /\ \E k \in DOMAIN freqs_dict_orig : Len(freqs_dict_orig[k]) = 2
    /\ Cardinality(DOMAIN freqs_dict_orig) = 2
    /\ key_order = <<1, 0>>
    /\ fd_outcome = Return(1)

-----------------------------------------------------------------------------
(* Claims about the signature extractor, under SpecSig *)
SigDone == pc = "done"
TimesIn(sig) == UNION {Range(sig[y]) : y \in DOMAIN sig}

\* C9 as stated: with 0 < overlap < fft_bin_size window 0 is shorter than
\* fft_bin_size and is discarded, so time index 0 never appears in the
\* signature.
C9_WindowZeroNeverAppears ==
    SigDone /\ 0 < overlap /\ overlap < fft_bin_size => 0 \notin TimesIn(freqs_dict)

\* C9 as amended: window x holds the samples from max(0, -overlap + x *
\* (fft_bin_size - overlap)) on, so a window that would start before sample 0
\* is moved to sample 0 and keeps its length; every time index of the
\* signature is the index of a window with fft_bin_size samples; and with
\* 0 < overlap, a buffer of at least fft_bin_size samples and box_width 1,
\* time index 0 does appear.
C9_WindowsClampedNotShrunk ==
    SigDone =>
        /\ \A x \in TimesIn(freqs_dict) :
            LET j == -overlap + x * (fft_bin_size - overlap)
            IN  /\ x >= 0
                /\ j < Len(data)
                /\ (IF j > 0 THEN j ELSE 0) + fft_bin_size <= Len(data)
        /\ 0 < overlap /\ Len(data) >= fft_bin_size /\ box_width = 1
              => 0 \in TimesIn(freqs_dict)

C9_Witness ==
    /\ SigDone
    /\ 0 < overlap
    /\ fft_bin_size = 4
    /\ Len(data) = MaxData
    /\ box_width = 1
    /\ 0 \in TimesIn(freqs_dict)
    /\ Cardinality(TimesIn(freqs_dict)) >= 2

-----------------------------------------------------------------------------
(* Claims about __exit__, under SpecExit *)
Exited == pc = "exited"
AllAttemptsFailed == Exited /\ dir_exists

\* C10 as stated, its part that fails: when every attempt fails, the
\* exhaustion is surfaced to the caller.
C10_ExhaustionSurfaced ==
    AllAttemptsFailed => exit_outcome = "raised" \/ propagated = "exhaustion"

\* C10 as amended: the removal is attempted at least once and at most 3
\* times, no attempt follows a successful one, __exit__ always ends, it
\* neither suppresses nor replaces an exception of the body nor changes how
\* the body ended; and when every attempt fails it returns None like after a
\* success: nothing is surfaced to the caller.
C10_BoundedSilentTeardown ==
    /\ [](attempts <= 3)
    /\ [](Exited => attempts >= 1)
    /\ [](Exited => exit_outcome = "returned None")
    /\ [](Exited => propagated = IF body = "raised" THEN "exception of the body" ELSE "nothing")
    /\ [](AllAttemptsFailed => attempts = 3)
    /\ [][~dir_exists => attempts' = attempts]_vars
    /\ [][body' = body]_vars
    /\ <>Exited

C10_Witness ==
    /\ AllAttemptsFailed
    /\ attempts = 3
    /\ body = "raised"
    /\ propagated = "exception of the body"
    /\ locked # {}
====
